---- MODULE Spec2Model ----
(***************************************************************************)
(* Model of src/script.js: the Game object (round / phase / score state,   *)
(* the DOM event handlers registered by initEvents, the delayed round      *)
(* advance scheduled by endRound) and the part of AudioEngine that the     *)
(* handlers drive (permission, start / stop of a capture, playback and the *)
(* reversal of a decoded buffer).                                          *)
(*                                                                         *)
(* Spec runs every handler in every state; SpecUI admits clicks only on    *)
(* controls that are on display; SpecPlay adds the play buttons to SpecUI; *)
(* SpecReverse applies the reversal step to every small AudioBuffer.       *)
(*                                                                         *)
(* Every handler is one atomic action (JavaScript runs a handler to        *)
(* completion); an `await` splits a handler in two actions, and a          *)
(* setTimeout callback is an action of its own that fires while its timer  *)
(* is pending.  Guards are the conditions and early returns of the code.   *)
(***************************************************************************)
EXTENDS Integers, Sequences, FiniteSets

(* config.totalRounds / config.maxAttempts (script.js:84-85).  The source  *)
(* sets both to 5; the model runs the same code with a smaller             *)
(* configuration so that whole games are explored exhaustively.            *)
totalRounds == 2
maxAttempts == 2

(* Bounds of the exploration (not part of the program).                    *)
MaxHistory == 3        \* history entries pushed in one session
MaxPendingStarts == 1  \* start clicks awaiting their permission answer at once
MaxChannels == 2       \* channels of a decoded AudioBuffer
MaxLen == 3            \* sample frames of a decoded AudioBuffer

(* A Blob is identified by when its capture was started: in the round that *)
(* is now running ("fresh") or in a round that has since been left         *)
(* ("stale").  Null is the null reference.                                 *)
Null == "null"
Blobs == {"fresh", "stale"}

\* state.round++ : what was captured in the round just left is now stale
Aged(b) == IF b = Null THEN Null ELSE "stale"

PlayerKeys == {"A", "B"}
Phases == {"SETUP", "RECORD_CHALLENGE", "CONFIRM_CHALLENGE", "GUESSING"}
PlayButtons == {"playChallengeBtn", "playMimicBtn"}

VARIABLES
    phase,                  \* state.phase
    round,                  \* state.round
    attempts,               \* state.attempts
    turnPlayer,             \* state.turnPlayer (the challenger)
    score,                  \* state.players[k].score
    history,                \* state.history (one entry per endRound call)
    currentChallengeAudio,  \* state.currentChallengeAudio
    currentMimicAudio,      \* state.currentMimicAudio
    mediaRecorder,          \* audioEngine.mediaRecorder: FALSE = null
    recording,              \* recordBtn carries the class 'recording'
    chunks,                 \* audioEngine.chunks: the capture being buffered, Null if none
    stopPending,            \* blob of the stopRecording promise not yet resolved
    startPending,           \* start clicks awaiting requestPermission
    timers,                 \* endRound timeouts not yet fired
    ended,                  \* endGame has run: its reload timeout is pending
    winnerText,             \* endGame's winnerText on the overlay, "" before endGame
    playing,                \* per play button: what its playAudio call is waiting for
    audioBuffer,            \* playReversed: the decoded AudioBuffer, one sequence per channel
    reversal                \* playReversed: outcome of the reversal step

vars == <<phase, round, attempts, turnPlayer, score, history,
          currentChallengeAudio, currentMimicAudio, mediaRecorder, recording,
          chunks, stopPending, startPending, timers, ended, winnerText,
          playing, audioBuffer, reversal>>

audioVars == <<currentChallengeAudio, currentMimicAudio, recording, chunks, stopPending>>
bootVars == <<mediaRecorder, startPending>>
engineVars == <<playing, audioBuffer, reversal>>
gameVars == <<phase, round, attempts, turnPlayer, score, history, audioVars,
              bootVars, timers, ended, winnerText>>

(* ---------------------------------------------------------------------- *)
(* Pure helpers                                                            *)
(* ---------------------------------------------------------------------- *)

\* handleJudge / setPhase / endRound: turnPlayer === 'A' ? 'B' : 'A'
Other(k) == IF k = "A" THEN "B" ELSE "A"

\* (variant: the parity test inverted)
ChallengerSwapped(r) == IF r % 2 = 0 THEN "A" ELSE "B"

\* startRound: (round % 2 !== 0) ? 'A' : 'B'
Challenger(r) == IF r % 2 # 0 THEN "A" ELSE "B"

\* (variant: the attempt being judged is counted as used)
AwardAfterCount(k) == (maxAttempts - (k + 1)) * 10

\* handleJudge: (maxAttempts - attempts) * 10
Award(k) == (maxAttempts - k) * 10

\* (variant: > in place of >=)
ExhaustedEarly(a) == a + 1 >= maxAttempts
ExhaustedStrict(a) == a > maxAttempts

\* handleJudge: attempts >= maxAttempts (tested after attempts++)
Exhausted(a) == a >= maxAttempts

\* endRound: the log line `R${round}: ${challenger} -> ${guesser} [ok|x] (${attempts} fails)`
LogEntry(r, tp, success, fails) ==
    [round |-> r, challenger |-> tp, guesser |-> Other(tp),
     success |-> success, fails |-> fails]

(* ---------------------------------------------------------------------- *)
(* Initial state: new Game() (constructor, script.js:80-122)               *)
(* ---------------------------------------------------------------------- *)
newGame ==
    /\ phase = "SETUP"
    /\ round = 1
    /\ attempts = 0
    /\ turnPlayer = "A"
    /\ score = [k \in PlayerKeys |-> 0]
    /\ history = <<>>
    /\ currentChallengeAudio = Null
    /\ currentMimicAudio = Null
    /\ mediaRecorder = FALSE
    /\ recording = FALSE
    /\ chunks = Null
    /\ stopPending = Null
    /\ startPending = 0
    /\ timers = 0
    /\ ended = FALSE
    /\ winnerText = ""

Init ==
    /\ newGame
    /\ playing = [b \in PlayButtons |-> FALSE]
    /\ audioBuffer = <<>>
    /\ reversal = [status |-> "pending", buffer |-> <<>>]

(* ---------------------------------------------------------------------- *)
(* Game.startRound with state.round = r (script.js:215-229)                *)
(* ---------------------------------------------------------------------- *)
startRoundKeepingMimic(r) ==
    /\ attempts' = 0
    /\ currentChallengeAudio' = Null
    /\ UNCHANGED currentMimicAudio
    /\ turnPlayer' = Challenger(r)
    /\ phase' = "RECORD_CHALLENGE"

startRound(r) ==
    /\ attempts' = 0
    /\ currentChallengeAudio' = Null
    /\ currentMimicAudio' = Null
    /\ turnPlayer' = Challenger(r)
    /\ phase' = "RECORD_CHALLENGE"

(* ---------------------------------------------------------------------- *)
(* Start button (script.js:126-133): click, then the permission outcome    *)
(* ---------------------------------------------------------------------- *)
startClick ==
    /\ startPending < MaxPendingStarts
    /\ startPending' = startPending + 1
    /\ UNCHANGED <<phase, round, attempts, turnPlayer, score, history,
                   audioVars, mediaRecorder, timers, ended, winnerText,
                   engineVars>>

\* requestPermission resolves true: a new MediaRecorder (inactive) replaces
\* the old one, whose running capture can no longer be stopped; startGame runs
permissionGranted ==
    /\ startPending > 0
    /\ startPending' = startPending - 1
    /\ mediaRecorder' = TRUE
    /\ chunks' = Null
    /\ startRound(round)
    /\ UNCHANGED <<round, score, history, recording, stopPending,
                   timers, ended, winnerText,
                   engineVars>>

\* requestPermission resolves false: the handler does nothing more
permissionDenied ==
    /\ startPending > 0
    /\ startPending' = startPending - 1
    /\ UNCHANGED <<phase, round, attempts, turnPlayer, score, history,
                   audioVars, mediaRecorder, timers, ended, winnerText,
                   engineVars>>

(* ---------------------------------------------------------------------- *)
(* Record button (script.js:136-168)                                       *)
(* ---------------------------------------------------------------------- *)
startRec ==
    /\ phase \in {"RECORD_CHALLENGE", "CONFIRM_CHALLENGE", "GUESSING"}
    /\ recording' = TRUE
    \* startRecording: nothing without a mediaRecorder; start() on a recorder
    \* that is already recording throws and the running capture goes on
    /\ chunks' = IF mediaRecorder /\ chunks = Null THEN "fresh" ELSE chunks
    /\ UNCHANGED <<phase, round, attempts, turnPlayer, score, history,
                   currentChallengeAudio, currentMimicAudio, stopPending,
                   bootVars, timers, ended, winnerText,
                   engineVars>>

\* stopRec after `await stopRecording()`: the blob is routed by the phase
\* read when the promise resolves
routeBlobToChallenge(blob) ==
    /\ currentChallengeAudio' = blob
    /\ UNCHANGED currentMimicAudio
    /\ phase' = IF phase = "RECORD_CHALLENGE" THEN "CONFIRM_CHALLENGE" ELSE phase

routeBlob(blob) ==
    /\ currentChallengeAudio' =
          IF phase \in {"RECORD_CHALLENGE", "CONFIRM_CHALLENGE"}
          THEN blob ELSE currentChallengeAudio
    /\ currentMimicAudio' =
          IF phase = "GUESSING" THEN blob ELSE currentMimicAudio
    /\ phase' = IF phase = "RECORD_CHALLENGE" THEN "CONFIRM_CHALLENGE" ELSE phase

\* stopRec up to the await.  Without a mediaRecorder the promise resolves
\* null at once and the rest of the handler runs before any other event.
\* stop() on a recorder that is not recording yields no stop event, so the
\* handler never continues.  stopRecording replaces mediaRecorder.onstop, so
\* of two stops in flight only the later promise is ever resolved.
stopRec ==
    /\ recording
    /\ recording' = FALSE
    /\ IF ~mediaRecorder
       THEN /\ routeBlob(Null)
            /\ UNCHANGED <<stopPending, chunks>>
       ELSE /\ stopPending' = IF chunks # Null THEN chunks ELSE stopPending
            /\ chunks' = Null
            /\ UNCHANGED <<phase, currentChallengeAudio, currentMimicAudio>>
    /\ UNCHANGED <<round, attempts, turnPlayer, score, history,
                   bootVars, timers, ended, winnerText,
                   engineVars>>

\* mediaRecorder.onstop fires: the promise resolves with the blob
stopRecResolved ==
    /\ stopPending # Null
    /\ routeBlob(stopPending)
    /\ stopPending' = Null
    /\ UNCHANGED <<round, attempts, turnPlayer, score, history, recording,
                   chunks, bootVars, timers, ended, winnerText,
                   engineVars>>

(* ---------------------------------------------------------------------- *)
(* Confirm button (script.js:173-176): setPhase('GUESSING')                *)
(* ---------------------------------------------------------------------- *)
confirmClick ==
    /\ phase' = "GUESSING"
    /\ UNCHANGED <<round, attempts, turnPlayer, score, history,
                   audioVars, bootVars, timers, ended, winnerText,
                   engineVars>>

(* ---------------------------------------------------------------------- *)
(* Game.endRound (script.js:295-315): push the log, schedule the advance   *)
(* ---------------------------------------------------------------------- *)
endRound(success, fails) ==
    /\ history' = Append(history, LogEntry(round, turnPlayer, success, fails))
    /\ timers' = timers + 1

(* ---------------------------------------------------------------------- *)
(* Game.handleJudge (script.js:273-293)                                    *)
(* ---------------------------------------------------------------------- *)
handleJudge(isSuccess) ==
    /\ IF isSuccess
       THEN /\ Len(history) < MaxHistory
            /\ score' = [score EXCEPT ![Other(turnPlayer)] = @ + Award(attempts)]
            /\ endRound(TRUE, attempts)
            /\ UNCHANGED attempts
       ELSE /\ attempts' = attempts + 1
            /\ IF Exhausted(attempts + 1)
               THEN /\ Len(history) < MaxHistory
                    /\ endRound(FALSE, attempts + 1)
               ELSE UNCHANGED <<history, timers>>
            /\ UNCHANGED score
    /\ UNCHANGED <<phase, round, turnPlayer, audioVars, bootVars, ended, winnerText,
                   engineVars>>

(* ---------------------------------------------------------------------- *)
(* Game.endGame (script.js:317-329): the overlay names the winner and the  *)
(* reload is scheduled.  "A" / "B" stand for `${name} wins`, "draw" for    *)
(* the tie text.                                                           *)
(* ---------------------------------------------------------------------- *)
endGameTieToA ==
    /\ winnerText' = IF score["A"] >= score["B"] THEN "A"
                     ELSE IF score["B"] > score["A"] THEN "B"
                     ELSE "draw"
    /\ ended' = TRUE

endGame ==
    /\ winnerText' = IF score["A"] > score["B"] THEN "A"
                     ELSE IF score["B"] > score["A"] THEN "B"
                     ELSE "draw"
    /\ ended' = TRUE

(* ---------------------------------------------------------------------- *)
(* The timeout set by endRound fires (script.js:307-314)                   *)
(* ---------------------------------------------------------------------- *)
roundTimer ==
    /\ timers > 0
    /\ timers' = timers - 1
    /\ IF round >= totalRounds
       THEN /\ endGame
            /\ UNCHANGED <<phase, round, attempts, turnPlayer,
                           currentChallengeAudio, currentMimicAudio>>
            /\ UNCHANGED <<chunks, stopPending>>
       ELSE /\ round' = round + 1
            /\ startRound(round + 1)
            /\ chunks' = Aged(chunks)
            /\ stopPending' = Aged(stopPending)
            /\ UNCHANGED <<ended, winnerText>>
    /\ UNCHANGED <<score, history, recording, bootVars, engineVars>>

(* ---------------------------------------------------------------------- *)
(* The timeout set by endGame fires: location.reload() (script.js:328).    *)
(* The page, its timers and its pending promises are discarded and         *)
(* DOMContentLoaded builds a new Game (script.js:378-380).                 *)
(* ---------------------------------------------------------------------- *)
reloadTimer ==
    /\ ended
    /\ phase' = "SETUP"
    /\ round' = 1
    /\ attempts' = 0
    /\ turnPlayer' = "A"
    /\ score' = [k \in PlayerKeys |-> 0]
    /\ history' = <<>>
    /\ currentChallengeAudio' = Null
    /\ currentMimicAudio' = Null
    /\ mediaRecorder' = FALSE
    /\ recording' = FALSE
    /\ chunks' = Null
    /\ stopPending' = Null
    /\ startPending' = 0
    /\ timers' = 0
    /\ ended' = FALSE
    /\ winnerText' = ""
    /\ playing' = [b \in PlayButtons |-> FALSE]
    /\ UNCHANGED <<audioBuffer, reversal>>

Next ==
    \/ startClick
    \/ permissionGranted
    \/ permissionDenied
    \/ startRec
    \/ stopRec
    \/ stopRecResolved
    \/ confirmClick
    \/ handleJudge(TRUE)
    \/ handleJudge(FALSE)
    \/ roundTimer
    \/ reloadTimer

Spec == Init /\ [][Next]_vars

(* ---------------------------------------------------------------------- *)
(* The same handlers, reached only through controls that are on display:   *)
(* setPhase hides confirmBtn and judgeControls and shows them again for    *)
(* CONFIRM_CHALLENGE resp. GUESSING (script.js:235-238, 254, 265), and     *)
(* startGame takes the setup view with its start button off the page       *)
(* (script.js:210).  state.phase is written by setPhase only, so what is   *)
(* on display is a function of the phase.                                  *)
(* ---------------------------------------------------------------------- *)
setupViewActive == phase = "SETUP"
confirmBtnShown == phase = "CONFIRM_CHALLENGE"
judgeControlsShown == phase = "GUESSING"

NextUI ==
    \/ setupViewActive /\ startClick
    \/ permissionGranted
    \/ permissionDenied
    \/ startRec
    \/ stopRec
    \/ stopRecResolved
    \/ confirmBtnShown /\ confirmClick
    \/ judgeControlsShown /\ handleJudge(TRUE)
    \/ judgeControlsShown /\ handleJudge(FALSE)
    \/ roundTimer
    \/ reloadTimer

SpecUI == Init /\ [][NextUI]_vars

(* ---------------------------------------------------------------------- *)
(* Play buttons: Game.playAudio (script.js:191-207) around                 *)
(* AudioEngine.playReversed (script.js:45-76).  playing[b] holds while     *)
(* button b carries the class 'playing' (and is disabled by playAudio):    *)
(* from the click until the catch block or source.onended has run.         *)
(* ---------------------------------------------------------------------- *)
blobOf(btn) ==
    IF btn = "playChallengeBtn" THEN currentChallengeAudio ELSE currentMimicAudio

\* the click handler up to the await; `if (!blob) return;`
playAudio(btn) ==
    /\ ~playing[btn]
    /\ playing' = [playing EXCEPT ![btn] = (blobOf(btn) # Null)]
    /\ UNCHANGED <<gameVars, audioBuffer, reversal>>

\* (variant: a clip that failed to play is discarded)
playReversedThrowsDroppingClip(btn) ==
    /\ playing[btn]
    /\ playing' = [playing EXCEPT ![btn] = FALSE]
    /\ currentChallengeAudio' =
          IF btn = "playChallengeBtn" THEN Null ELSE currentChallengeAudio
    /\ currentMimicAudio' =
          IF btn = "playMimicBtn" THEN Null ELSE currentMimicAudio
    /\ UNCHANGED <<phase, round, attempts, turnPlayer, score, history,
                   recording, chunks, stopPending, bootVars, timers, ended,
                   winnerText, audioBuffer, reversal>>

\* blob.arrayBuffer() or decodeAudioData rejects (DecodeError), or createBuffer
\* throws: the catch block of playAudio
playReversedThrows(btn) ==
    /\ playing[btn]
    /\ playing' = [playing EXCEPT ![btn] = FALSE]
    /\ UNCHANGED <<gameVars, audioBuffer, reversal>>

\* playReversed returned the started source, playAudio set source.onended,
\* and the reversed clip has played to its end: source.onended
sourceEnded(btn) ==
    /\ playing[btn]
    /\ playing' = [playing EXCEPT ![btn] = FALSE]
    /\ UNCHANGED <<gameVars, audioBuffer, reversal>>

playStep ==
    \E btn \in PlayButtons :
        \/ playAudio(btn)
        \/ playReversedThrows(btn)
        \/ sourceEnded(btn)

NextPlay == NextUI \/ playStep

SpecPlay == Init /\ [][NextPlay]_vars

(* ---------------------------------------------------------------------- *)
(* The reversal step of playReversed (script.js:54-68) on a decoded        *)
(* AudioBuffer.  Channel data is 0-based in the source and 1-based here.   *)
(* ---------------------------------------------------------------------- *)
Samples == {-1, 0, 1}

AudioBuffers ==
    UNION {UNION {[1..ch -> [1..n -> Samples]] : n \in 0..MaxLen} :
           ch \in 1..MaxChannels}

numberOfChannels(buf) == Len(buf)
length(buf) == Len(buf[1])

\* audioCtx.createBuffer: a zero-filled buffer; NotSupportedError when the
\* channel count or the length is below 1
createBuffer(nChannels, len) ==
    IF nChannels < 1 \/ len < 1
    THEN [ok |-> FALSE, buffer |-> <<>>]
    ELSE [ok |-> TRUE, buffer |-> [c \in 1..nChannels |-> [j \in 1..len |-> 0]]]

\* (variant: copied without reversing)
sameIndex(j, N) == j

\* the index read for position j: audioBuffer.length - 1 - j
mirrorIndex(j, N) == N - 1 - j

\* for (let j = 0; j < audioBuffer.length; j++) reversedData[j] = originalData[...]
RECURSIVE reverseLoop(_, _, _, _)
reverseLoop(originalData, reversedData, j, N) ==
    IF j < N
    THEN reverseLoop(originalData,
                     [reversedData EXCEPT ![j + 1] = originalData[mirrorIndex(j, N) + 1]],
                     j + 1, N)
    ELSE reversedData

\* createBuffer, then the loop over the channels
reverseInto(buf) ==
    LET made == createBuffer(numberOfChannels(buf), length(buf)) IN
    IF ~made.ok
    THEN [status |-> "NotSupportedError", buffer |-> <<>>]
    ELSE [status |-> "started",
          buffer |-> [i \in 1..numberOfChannels(buf) |->
                         reverseLoop(buf[i], made.buffer[i], 0, length(buf))]]

playReversed ==
    /\ reversal.status = "pending"
    /\ audioBuffer # <<>>
    /\ reversal' = reverseInto(audioBuffer)
    /\ UNCHANGED <<gameVars, playing, audioBuffer>>

\* decodeAudioData has resolved with some AudioBuffer
InitReverse ==
    /\ newGame
    /\ playing = [b \in PlayButtons |-> FALSE]
    /\ audioBuffer \in AudioBuffers
    /\ reversal = [status |-> "pending", buffer |-> <<>>]

NextReverse == playReversed

SpecReverse == InitReverse /\ [][NextReverse]_vars

(* ====================================================================== *)
(* Properties                                                              *)
(* ====================================================================== *)

\* A round has ended and its delayed advance has not fired yet
RoundEnded == timers > 0

\* The only situation in which a judge decision is expected
JudgingOpen == phase = "GUESSING" /\ ~RoundEnded /\ ~ended

judgeStep == handleJudge(TRUE) \/ handleJudge(FALSE)

\* what startRound(round % 2) is required to yield
ParityPlayer(r) == IF r % 2 = 1 THEN "A" ELSE "B"

\* number of history entries logged for round r
EntriesOf(r) == Cardinality({i \in 1..Len(history) : history[i].round = r})

(* C1: in every reachable state attempts is between 0 and maxAttempts,     *)
(* also between the judge decision that ends a round and the delayed       *)
(* start of the next round.                                                *)
C1_AttemptsWithinMax == attempts \in 0..maxAttempts

(* C2: a judge decision handled when judging is not open (phase other than *)
(* GUESSING, or after the round or the game has ended) changes none of     *)
(* scores, attempts, history, round, phase and schedules no round end.     *)
C2_JudgeIgnoredOutsideGuessing ==
    [][(~JudgingOpen /\ judgeStep)
         => UNCHANGED <<score, attempts, history, round, phase, timers>>]_vars

(* C3: when the game has ended, history holds exactly totalRounds entries, *)
(* one for each round 1..totalRounds, in increasing round order.           *)
C3_HistoryCompleteAtGameEnd ==
    ended => /\ Len(history) = totalRounds
             /\ \A i \in 1..totalRounds : history[i].round = i

(* C4: a success judged with attempts = k, k in 0..maxAttempts-1, adds     *)
(* exactly (maxAttempts - k) * 10 to the guesser's score, leaves the       *)
(* challenger's score alone, and awards strictly less than at k - 1.       *)
C4_SuccessAward ==
    [][\A k \in 0..(maxAttempts - 1) :
          (attempts = k /\ handleJudge(TRUE)) =>
             LET guesser == IF turnPlayer = "A" THEN "B" ELSE "A"
                 gain == score'[guesser] - score[guesser]
             IN  /\ gain = (maxAttempts - k) * 10
                 /\ score'[turnPlayer] = score[turnPlayer]
                 /\ k > 0 => gain < Award(k - 1)]_vars

\* a first-round success after one failure has been scored
C4_Witness ==
    /\ mediaRecorder
    /\ currentChallengeAudio # Null
    /\ currentMimicAudio # Null
    /\ Len(history) = 1
    /\ history[1].success
    /\ history[1].fails = 1
    /\ score[history[1].guesser] = (maxAttempts - 1) * 10
    /\ score[history[1].challenger] = 0

(* C5: every award made on a success is at least 10 points: no success is  *)
(* processed with attempts >= maxAttempts.                                 *)
C5_AwardAtLeastTen ==
    [][handleJudge(TRUE) =>
          /\ attempts < maxAttempts
          /\ score'[Other(turnPlayer)] >= score[Other(turnPlayer)] + 10]_vars

(* C6: in every reachable state the challenger is A when round is odd and  *)
(* B when it is even, the guesser is the other player, and every logged    *)
(* round names the pair that way, also across the delayed round advance.   *)
C6_ChallengerByParity ==
    /\ turnPlayer = ParityPlayer(round)
    /\ \A i \in 1..Len(history) :
          /\ history[i].challenger = ParityPlayer(history[i].round)
          /\ history[i].guesser \in PlayerKeys \ {history[i].challenger}

\* round 2 is being guessed after round 1 was logged and its timer fired
C6_Witness ==
    /\ mediaRecorder
    /\ currentChallengeAudio # Null
    /\ round = 2
    /\ turnPlayer = "B"
    /\ phase = "GUESSING"
    /\ timers = 0
    /\ Len(history) = 1
    /\ history[1].challenger = "A"

(* C7: a confirm handled while currentChallengeAudio is absent has no      *)
(* effect: the phase and all other state stay as they were.                *)
C7_ConfirmWithoutClipIgnored ==
    [][(currentChallengeAudio = Null /\ confirmClick) => UNCHANGED vars]_vars

(* C8: round progression never skips or repeats a round: round only moves  *)
(* by +1 and below totalRounds, every round already left was ended (logged)*)
(* exactly once, no round is started twice, and the game ends only after   *)
(* round totalRounds has been ended.                                       *)
C8_RoundProgression ==
    /\ [][(round' # round /\ ~reloadTimer)
            => (round < totalRounds /\ round' = round + 1)]_vars
    /\ [][permissionGranted => ~mediaRecorder]_vars
    /\ [](\A r \in 1..(round - 1) : EntriesOf(r) = 1)
    /\ [](ended => EntriesOf(totalRounds) = 1)

(* C9: the end of the game is terminal: while the ended game is on the     *)
(* page no event changes a score, the history, round, attempts or phase.   *)
C9_GameEndTerminal ==
    [][(ended /\ ended') => UNCHANGED <<score, history, round, attempts, phase>>]_vars

(* C10: a failure judged in GUESSING with attempts + 1 = maxAttempts sets  *)
(* attempts to maxAttempts, ends the round (one advance is scheduled),     *)
(* changes no score and appends exactly one history entry: outcome         *)
(* failure, maxAttempts fails.                                             *)
C10_ExhaustingFailure ==
    [][(phase = "GUESSING" /\ attempts + 1 = maxAttempts /\ handleJudge(FALSE)) =>
          /\ attempts' = maxAttempts
          /\ timers' = timers + 1
          /\ score' = score
          /\ Len(history') = Len(history) + 1
          /\ SubSeq(history', 1, Len(history)) = history
          /\ history'[Len(history')].round = round
          /\ history'[Len(history')].success = FALSE
          /\ history'[Len(history')].fails = maxAttempts]_vars

\* round 2 (challenger B) has just been lost on the last attempt
C10_Witness ==
    /\ mediaRecorder
    /\ currentChallengeAudio # Null
    /\ currentMimicAudio # Null
    /\ round = 2
    /\ phase = "GUESSING"
    /\ attempts = maxAttempts
    /\ timers = 1
    /\ Len(history) = 2
    /\ history[2] = [round |-> 2, challenger |-> "B", guesser |-> "A",
                     success |-> FALSE, fails |-> maxAttempts]
    /\ score["A"] = 0

(* C11: a failed authorization leaves the session in SETUP (the handler    *)
(* changes nothing of the game), and in every reachable state whose phase  *)
(* is not SETUP the authorization has succeeded (a mediaRecorder exists).  *)
C11_NoGameWithoutAuthorization ==
    /\ [][permissionDenied =>
            UNCHANGED <<phase, round, attempts, turnPlayer, score, history,
                        currentChallengeAudio, currentMimicAudio, mediaRecorder>>]_vars
    /\ [](phase # "SETUP" => mediaRecorder)

(* C16: a failure judged in GUESSING while attempts + 1 < maxAttempts adds  *)
(* one to attempts and changes nothing else: no score, no history entry,   *)
(* no phase or round change, and no advance is scheduled.                  *)
C16_NonExhaustingFailure ==
    [][(phase = "GUESSING" /\ attempts + 1 < maxAttempts /\ handleJudge(FALSE)) =>
          /\ attempts' = attempts + 1
          /\ UNCHANGED <<phase, round, turnPlayer, score, history, timers, ended,
                         currentChallengeAudio, currentMimicAudio, recording,
                         chunks, stopPending, mediaRecorder, startPending>>]_vars

C16_Witness ==
    /\ mediaRecorder
    /\ currentChallengeAudio # Null /\ currentMimicAudio # Null
    /\ phase = "GUESSING" /\ attempts = 1 /\ attempts < maxAttempts
    /\ timers = 0 /\ history = <<>> /\ score = [k \in PlayerKeys |-> 0]

(* The continuation of the stopRec handler runs: either the recorder's     *)
(* onstop delivered the blob, or there was no recorder and null came back. *)
stopHandled == stopRecResolved \/ (~mediaRecorder /\ stopRec)

(* C17: a capture-stop writes only the clip of the phase it is handled in: *)
(* in RECORD_CHALLENGE or CONFIRM_CHALLENGE the delivered blob becomes the *)
(* challenge clip and the phase is CONFIRM_CHALLENGE afterwards, in        *)
(* GUESSING it becomes the mimic clip and the phase stays; attempts,       *)
(* scores, round, history and the other clip are unchanged in all cases.   *)
C17_StopWritesClipOfPhase ==
    [][stopHandled =>
          LET blob == IF mediaRecorder THEN stopPending ELSE Null IN
          /\ phase \in {"RECORD_CHALLENGE", "CONFIRM_CHALLENGE"} =>
                /\ currentChallengeAudio' = blob
                /\ phase' = "CONFIRM_CHALLENGE"
                /\ UNCHANGED currentMimicAudio
          /\ phase = "GUESSING" =>
                /\ currentMimicAudio' = blob
                /\ UNCHANGED <<phase, currentChallengeAudio>>
          /\ UNCHANGED <<attempts, score, round, history, turnPlayer, timers, ended>>]_vars

C17_Witness ==
    /\ mediaRecorder /\ ~recording /\ stopPending = Null
    /\ phase = "GUESSING" /\ attempts = 1
    /\ currentChallengeAudio = "fresh" /\ currentMimicAudio = "fresh"
    /\ round = 2 /\ Len(history) = 1

(* C18: in every reachable state whose phase is RECORD_CHALLENGE both the  *)
(* challenge clip and the mimic clip are absent, also while a capture      *)
(* started before the round still has its stop outstanding.                *)
C18_NoClipsInRecordChallenge ==
    phase = "RECORD_CHALLENGE" =>
        (currentChallengeAudio = Null /\ currentMimicAudio = Null)

(* Round 2 has begun and the stop of a capture started in round 1 is still *)
(* to be delivered.                                                        *)
C18_Witness ==
    /\ mediaRecorder /\ phase = "RECORD_CHALLENGE" /\ round = 2
    /\ stopPending = "stale" /\ Len(history) = 1
    /\ currentChallengeAudio = Null /\ currentMimicAudio = Null

(* C19: a clip is stored only in the round that captured it: neither the   *)
(* challenge clip nor the mimic clip of the current round ever holds a     *)
(* capture started in an earlier round ("stale").                          *)
C19_ClipStoredInCapturingRound ==
    currentChallengeAudio # "stale" /\ currentMimicAudio # "stale"

(* C20: session start takes effect only from SETUP: a start request whose  *)
(* authorization is answered once an earlier start has begun the game (the *)
(* phase is no longer SETUP) does not reset attempts, clear the clips or   *)
(* move the phase back to RECORD_CHALLENGE.                                *)
C20_StartOnlyFromSetup ==
    [][(phase # "SETUP" /\ mediaRecorder /\ permissionGranted) =>
          UNCHANGED <<attempts, currentChallengeAudio, currentMimicAudio, phase>>]_vars

(* Capture is allowed in RECORD_CHALLENGE, CONFIRM_CHALLENGE and GUESSING   *)
(* of a round that has not ended; not in SETUP, not between a round's end  *)
(* and the next round's start, not after the game has ended.               *)
CaptureAllowed ==
    /\ phase \in {"RECORD_CHALLENGE", "CONFIRM_CHALLENGE", "GUESSING"}
    /\ ~RoundEnded /\ ~ended

captureStep == startRec \/ stopRec \/ stopRecResolved

(* C12: a capture handled outside the allowed phases is a no-op: no step   *)
(* of it (start, stop, delivery of the blob) writes the challenge clip or  *)
(* the mimic clip or changes the phase.                                    *)
C12_CaptureOutsideAllowedIsNoOp ==
    [][(~CaptureAllowed /\ captureStep) =>
          UNCHANGED <<currentChallengeAudio, currentMimicAudio, phase>>]_vars

(* C15: at game end the announced winner is the player whose score is     *)
(* strictly higher, and a draw is announced exactly when the two scores    *)
(* are equal.                                                              *)
C15_WinnerByStrictlyHigherScore ==
    [][(roundTimer /\ round >= totalRounds) =>
          /\ ended'
          /\ winnerText' \in {"A", "B", "draw"}
          /\ winnerText' = "A" <=> score'["A"] > score'["B"]
          /\ winnerText' = "B" <=> score'["B"] > score'["A"]
          /\ winnerText' = "draw" <=> score'["A"] = score'["B"]]_vars

C15_Witness ==
    /\ ended /\ mediaRecorder /\ timers = 0
    /\ Len(history) = totalRounds /\ round = totalRounds
    /\ score["A"] > 0 /\ score["B"] > score["A"]
    /\ winnerText = "B"

(* C13: a playChallenge or playMimic request never changes the game state: *)
(* whether the clip is absent, fails to decode or plays to completion, no  *)
(* step of the request changes the phase, attempts, scores, round, history *)
(* or either stored clip.                                                  *)
C13_PlaybackLeavesGameState ==
    [][playStep =>
          UNCHANGED <<phase, attempts, score, round, history,
                      currentChallengeAudio, currentMimicAudio>>]_vars

(* Both clips of round 2 are being played during the guessing.             *)
C13_Witness ==
    /\ phase = "GUESSING" /\ round = 2 /\ attempts = 1
    /\ currentChallengeAudio = "fresh" /\ currentMimicAudio = "fresh"
    /\ playing["playChallengeBtn"] /\ playing["playMimicBtn"]

(* The samples of out are those of in in reverse order, channel by channel *)
ReversedCopy(in, out) ==
    /\ Len(out) = Len(in)
    /\ \A c \in 1..Len(in) :
          /\ Len(out[c]) = Len(in[c])
          /\ \A j \in 0..(Len(in[c]) - 1) :
                out[c][j + 1] = in[c][(Len(in[c]) - 1 - j) + 1]

====
